---- MODULE Spec2Model ----
(***************************************************************************)
(* Model of rule-templater: RuleTemplate.parse / extractVariables /        *)
(* validate / prepare, the filter registry TemplateFilters and the         *)
(* template grammar.  JavaScript strings are sequences of one-character    *)
(* strings, so offsets, substring, trim and replace are computed.          *)
(***************************************************************************)
EXTENDS Integers, Sequences, FiniteSets, TLC

(***************************************************************************)
(* Characters and strings                                                  *)
(***************************************************************************)
LowerLetters == <<"a","b","c","d","e","f","g","h","i","j","k","l","m",
                  "n","o","p","q","r","s","t","u","v","w","x","y","z">>
UpperLetters == <<"A","B","C","D","E","F","G","H","I","J","K","L","M",
                  "N","O","P","Q","R","S","T","U","V","W","X","Y","Z">>
DigitChars == <<"0","1","2","3","4","5","6","7","8","9">>

Range(s) == {s[i] : i \in 1..Len(s)}
IndexOf(s, c) == CHOOSE i \in 1..Len(s) : s[i] = c

\* WS ::= [#x20#x09#x0A#x0D]; String.prototype.trim removes the same characters
IsWS(c) == c \in {" ", "\t", "\n", "\r"}
IsLetter(c) == c \in Range(LowerLetters) \cup Range(UpperLetters)
IsDigit(c) == c \in Range(DigitChars)

\* String.prototype.toUpperCase / toLowerCase, one character
UpperChar(c) == IF c \in Range(LowerLetters) THEN UpperLetters[IndexOf(LowerLetters, c)] ELSE c
LowerChar(c) == IF c \in Range(UpperLetters) THEN LowerLetters[IndexOf(UpperLetters, c)] ELSE c
toUpperCase(s) == [i \in 1..Len(s) |-> UpperChar(s[i])]
toLowerCase(s) == [i \in 1..Len(s) |-> LowerChar(s[i])]

\* String.prototype.substring(a, b) with 0 <= a <= b: zero-based, half-open
substring(s, a, b) == SubSeq(s, a + 1, IF b > Len(s) THEN Len(s) ELSE b)

RECURSIVE TrimStart(_)
TrimStart(s) == IF s # <<>> /\ IsWS(Head(s)) THEN TrimStart(Tail(s)) ELSE s
RECURSIVE TrimEnd(_)
TrimEnd(s) == IF s # <<>> /\ IsWS(s[Len(s)]) THEN TrimEnd(SubSeq(s, 1, Len(s) - 1)) ELSE s
\* String.prototype.trim
trim(s) == TrimEnd(TrimStart(s))

\* String.prototype.replace(/c/g, by): every occurrence of the character c
RECURSIVE replaceAll(_, _, _)
replaceAll(s, c, by) ==
    IF s = <<>> THEN <<>>
    ELSE (IF Head(s) = c THEN by ELSE <<Head(s)>>) \o replaceAll(Tail(s), c, by)

(***************************************************************************)
(* JavaScript values: a kind, a string payload and a number payload        *)
(***************************************************************************)
Str(s)  == [k |-> "string", s |-> s, n |-> 0]
Num(n)  == [k |-> "number", s |-> <<>>, n |-> n]
Bool(b) == [k |-> "boolean", s |-> <<>>, n |-> IF b THEN 1 ELSE 0]
Null    == [k |-> "null", s |-> <<>>, n |-> 0]
Undefined == [k |-> "undefined", s |-> <<>>, n |-> 0]
NaN     == [k |-> "NaN", s |-> <<>>, n |-> 0]
\* a plain object, and the TemplateFilters object itself
PlainObject == [k |-> "object", s |-> <<>>, n |-> 0]

RECURSIVE DigitsOf(_)
DigitsOf(n) == IF n < 10 THEN <<DigitChars[n + 1]>>
               ELSE DigitsOf(n \div 10) \o <<DigitChars[(n % 10) + 1]>>
NumberToString(n) == IF n < 0 THEN <<"-">> \o DigitsOf(0 - n) ELSE DigitsOf(n)

\* String(value)
String(v) ==
    CASE v.k = "string"    -> v.s
      [] v.k = "number"    -> NumberToString(v.n)
      [] v.k = "boolean"   -> IF v.n = 1 THEN <<"t","r","u","e">> ELSE <<"f","a","l","s","e">>
      [] v.k = "null"      -> <<"n","u","l","l">>
      [] v.k = "undefined" -> <<"u","n","d","e","f","i","n","e","d">>
      [] v.k = "NaN"       -> <<"N","a","N">>
      [] OTHER             -> <<"[","o","b","j","e","c","t"," ","O","b","j","e","c","t","]">>

\* truthiness (value ? a : b, Boolean(value))
Truthy(v) ==
    CASE v.k = "string"  -> v.s # <<>>
      [] v.k = "number"  -> v.n # 0
      [] v.k = "boolean" -> v.n = 1
      [] v.k = "object"  -> TRUE
      [] OTHER           -> FALSE

RECURSIVE DigitsValue(_, _)
DigitsValue(s, acc) ==
    IF s = <<>> THEN acc
    ELSE DigitsValue(Tail(s), acc * 10 + (IndexOf(DigitChars, Head(s)) - 1))

\* Number(value) on the integer literals: optional sign, decimal digits,
\* surrounding whitespace ignored, the empty string 0, anything else NaN
Number(v) ==
    CASE v.k = "number"  -> v
      [] v.k = "boolean" -> Num(v.n)
      [] v.k = "null"    -> Num(0)
      [] v.k = "string"  ->
            LET t == trim(v.s)
                neg == t # <<>> /\ Head(t) = "-"
                d == IF t # <<>> /\ Head(t) \in {"-", "+"} THEN Tail(t) ELSE t
            IN  IF t = <<>> THEN Num(0)
                ELSE IF d # <<>> /\ \A i \in 1..Len(d) : IsDigit(d[i])
                     THEN Num(IF neg THEN 0 - DigitsValue(d, 0) ELSE DigitsValue(d, 0))
                     ELSE NaN
      [] OTHER           -> NaN

(***************************************************************************)
(* TemplateFilters: the functions, and the registry object                 *)
(***************************************************************************)
\* JSON.stringify of a string: quotes added, the double quote, the backslash
\* and the control characters escaped
JSONStringify(s) ==
    LET esc(c) == CASE c = "\"" -> <<"\\", "\"">>
                    [] c = "\\" -> <<"\\", "\\">>
                    [] c = "\t" -> <<"\\", "t">>
                    [] c = "\n" -> <<"\\", "n">>
                    [] c = "\r" -> <<"\\", "r">>
                    [] OTHER    -> <<c>>
        escAll[i \in 0..Len(s)] == IF i = 0 THEN <<>> ELSE escAll[i - 1] \o esc(s[i])
    IN  <<"\"">> \o escAll[Len(s)] \o <<"\"">>

\* str.charAt(0).toUpperCase() + str.slice(1).toLowerCase()
CapitalizeWord(s) ==
    [i \in 1..Len(s) |-> IF i = 1 THEN UpperChar(s[i]) ELSE LowerChar(s[i])]

\* String.prototype.split(' '): the list of words between single spaces
RECURSIVE SplitSpace(_, _)
SplitSpace(s, cur) ==
    IF s = <<>> THEN <<cur>>
    ELSE IF Head(s) = " " THEN <<cur>> \o SplitSpace(Tail(s), <<>>)
    ELSE SplitSpace(Tail(s), Append(cur, Head(s)))

\* Array.prototype.join(' ')
RECURSIVE JoinSpace(_)
JoinSpace(ws) ==
    IF Len(ws) = 0 THEN <<>>
    ELSE IF Len(ws) = 1 THEN ws[1]
    ELSE ws[1] \o <<" ">> \o JoinSpace(Tail(ws))

FilterTitle(s) ==
    LET ws == SplitSpace(s, <<>>)
    IN  JoinSpace([i \in 1..Len(ws) |-> CapitalizeWord(ws[i])])

FilterBoolean(v) ==
    IF v.k = "boolean" THEN v
    ELSE IF v.k = "string"
              /\ toLowerCase(v.s) \in {<<"t","r","u","e">>, <<"1">>, <<"y","e","s">>}
         THEN Bool(TRUE)
    ELSE IF v.k = "string"
              /\ toLowerCase(v.s) \in {<<"f","a","l","s","e">>, <<"0">>, <<"n","o">>}
         THEN Bool(FALSE)
    ELSE Bool(Truthy(v))

\* Math.abs on Number(value); round, floor and ceil are the identity on the
\* integers the model's numbers are
MathAbs(v) == IF v.k = "number" /\ v.n < 0 THEN Num(0 - v.n) ELSE v

\* default: (value, defaultValue = '') called with one argument
FilterDefault(v) ==
    IF v.k = "null" \/ v.k = "undefined" \/ v = Str(<<>>) THEN Str(<<>>) ELSE v

\* The function a registry entry holds, applied to one value.  "reverse" is
\* the custom filter of the README; "Object.prototype.toString" is what the
\* registry object inherits under the name toString.
ApplyFilter(fn, v) ==
    CASE fn = "string"     -> Str(JSONStringify(String(v)))
      [] fn = "upper"      -> Str(toUpperCase(String(v)))
      [] fn = "lower"      -> Str(toLowerCase(String(v)))
      [] fn = "capitalize" -> Str(CapitalizeWord(String(v)))
      [] fn = "title"      -> Str(FilterTitle(String(v)))
      [] fn = "trim"       -> Str(trim(String(v)))
      [] fn = "number"     -> Number(v)
      [] fn = "boolean"    -> FilterBoolean(v)
      [] fn = "abs"        -> MathAbs(Number(v))
      [] fn = "round"      -> Number(v)
      [] fn = "floor"      -> Number(v)
      [] fn = "ceil"       -> Number(v)
      [] fn = "default"    -> FilterDefault(v)
      [] fn = "reverse"    -> LET s == String(v)
                              IN  Str([i \in 1..Len(s) |-> s[Len(s) + 1 - i]])
      [] fn = "Object.prototype.toString" -> Str(String(PlainObject))
      [] OTHER             -> v

\* the names of the thirteen own properties of the TemplateFilters object
\* literal, of the custom filter of the README and of the method every
\* object inherits
FilterName ==
    [ string |-> <<"s","t","r","i","n","g">>,
      upper |-> <<"u","p","p","e","r">>,
      lower |-> <<"l","o","w","e","r">>,
      capitalize |-> <<"c","a","p","i","t","a","l","i","z","e">>,
      title |-> <<"t","i","t","l","e">>,
      trim |-> <<"t","r","i","m">>,
      number |-> <<"n","u","m","b","e","r">>,
      boolean |-> <<"b","o","o","l","e","a","n">>,
      abs |-> <<"a","b","s">>,
      round |-> <<"r","o","u","n","d">>,
      floor |-> <<"f","l","o","o","r">>,
      ceil |-> <<"c","e","i","l">>,
      default |-> <<"d","e","f","a","u","l","t">>,
      reverse |-> <<"r","e","v","e","r","s","e">>,
      toString |-> <<"t","o","S","t","r","i","n","g">> ]

InitialFilters ==
    (FilterName.string :> "string") @@ (FilterName.upper :> "upper") @@ (FilterName.lower :> "lower")
    @@ (FilterName.capitalize :> "capitalize") @@ (FilterName.title :> "title") @@ (FilterName.trim :> "trim")
    @@ (FilterName.number :> "number") @@ (FilterName.boolean :> "boolean") @@ (FilterName.abs :> "abs")
    @@ (FilterName.round :> "round") @@ (FilterName.floor :> "floor") @@ (FilterName.ceil :> "ceil")
    @@ (FilterName.default :> "default")

\* The registry is a plain object literal: a name it does not own is looked
\* up on Object.prototype.  "undefined" when the chain has no such name.
ObjectPrototype == (FilterName.toString :> "Object.prototype.toString")

\* the object literal of TemplateFilters.js looked up, whatever was assigned since
FilterLookupInitial(registry, filterName) ==
    IF filterName \in DOMAIN InitialFilters THEN InitialFilters[filterName]
    ELSE IF filterName \in DOMAIN ObjectPrototype THEN ObjectPrototype[filterName]
    ELSE "undefined"
\* TemplateFilters[filterName]
FilterLookup(registry, filterName) ==
    IF filterName \in DOMAIN registry THEN registry[filterName]
    ELSE IF filterName \in DOMAIN ObjectPrototype THEN ObjectPrototype[filterName]
    ELSE "undefined"

(***************************************************************************)
(* The parse tree and the grammar.  A node is {type, text, start, end,     *)
(* children}; start and end are zero-based half-open offsets into the text *)
(* handed to getAST.  Rules with upper-case names (WS, IDENT, PIPE, AND,   *)
(* BEGIN_ARGUMENT, ...) leave no node: their text is a gap of the parent.  *)
(***************************************************************************)
Node(type, txt, s, e, children) ==
    [type |-> type, text |-> substring(txt, s, e), start |-> s, end |-> e,
     children |-> children]

\* the value getAST returns when the text does not match, and a missing node
NullNode == [type |-> "null", text |-> <<>>, start |-> 0, end |-> 0, children |-> <<>>]

\* a parsing result: the offset reached (NoMatch when the rule fails) and the
\* nodes made
NoMatch == 0 - 1
Fail == [e |-> NoMatch, ns |-> <<>>]
Ok(e, ns) == [e |-> e, ns |-> ns]

CharAt(txt, p) == IF p < Len(txt) THEN txt[p + 1] ELSE "EOF"

\* WS*
RECURSIVE SkipWS(_, _)
SkipWS(txt, p) == IF IsWS(CharAt(txt, p)) THEN SkipWS(txt, p + 1) ELSE p

\* a literal terminal at p: the offset after it, or NoMatch
Lit(txt, p, lit) ==
    IF p + Len(lit) <= Len(txt) /\ substring(txt, p, p + Len(lit)) = lit
    THEN p + Len(lit) ELSE NoMatch

\* IDENT ::= [A-Za-z_][A-Za-z0-9_]*
RECURSIVE IdentRest(_, _)
IdentRest(txt, p) ==
    LET c == CharAt(txt, p)
    IN  IF IsLetter(c) \/ IsDigit(c) \/ c = "_" THEN IdentRest(txt, p + 1) ELSE p
IDENT(txt, p) ==
    LET c == CharAt(txt, p)
    IN  IF IsLetter(c) \/ c = "_" THEN IdentRest(txt, p + 1) ELSE NoMatch

\* template_path ::= IDENT (WS* DOT WS* IDENT)*
RECURSIVE PathRest(_, _)
PathRest(txt, p) ==
    LET d == Lit(txt, SkipWS(txt, p), <<".">>)
        e == IF d = NoMatch THEN NoMatch ELSE IDENT(txt, SkipWS(txt, d))
    IN  IF e = NoMatch THEN p ELSE PathRest(txt, e)
template_path(txt, p) ==
    LET e == IDENT(txt, p)
    IN  IF e = NoMatch THEN Fail
        ELSE Ok(PathRest(txt, e), <<Node("template_path", txt, p, PathRest(txt, e), <<>>)>>)

\* template_filter_name ::= IDENT
template_filter_name(txt, p) ==
    LET e == IDENT(txt, p)
    IN  IF e = NoMatch THEN Fail
        ELSE Ok(e, <<Node("template_filter_name", txt, p, e, <<>>)>>)

\* number ::= [0-9]+ (the integer literals of the host grammar)
RECURSIVE DigitsRest(_, _)
DigitsRest(txt, p) == IF IsDigit(CharAt(txt, p)) THEN DigitsRest(txt, p + 1) ELSE p
number(txt, p) ==
    IF IsDigit(CharAt(txt, p))
    THEN Ok(DigitsRest(txt, p), <<Node("number", txt, p, DigitsRest(txt, p), <<>>)>>)
    ELSE Fail

\* fname ::= [a-zA-z0-9]+
RECURSIVE FnameRest(_, _)
FnameRest(txt, p) ==
    LET c == CharAt(txt, p)
    IN  IF IsLetter(c) \/ IsDigit(c) THEN FnameRest(txt, p + 1) ELSE p
fname(txt, p) ==
    IF FnameRest(txt, p) > p
    THEN Ok(FnameRest(txt, p), <<Node("fname", txt, p, FnameRest(txt, p), <<>>)>>)
    ELSE Fail

\* operator ::= GTE | LTE | GT | LT | EQ | NEQ
operator(txt, p) ==
    LET two == {<<">", "=">>, <<"<", "=">>, <<"=", "=">>, <<"!", "=">>}
        one == {<<">">>, <<"<">>}
    IN  IF \E l \in two : Lit(txt, p, l) # NoMatch
        THEN Ok(p + 2, <<Node("operator", txt, p, p + 2, <<>>)>>)
        ELSE IF \E l \in one : Lit(txt, p, l) # NoMatch
        THEN Ok(p + 1, <<Node("operator", txt, p, p + 1, <<>>)>>)
        ELSE Fail

\* logical_operator ||= AND | OR, AND ||= WS* "&&" WS*, OR ||= WS* "||" WS*
logical_operator(txt, p) ==
    LET q == SkipWS(txt, p)
        a == IF Lit(txt, q, <<"&", "&">>) # NoMatch THEN Lit(txt, q, <<"&", "&">>)
             ELSE Lit(txt, q, <<"|", "|">>)
    IN  IF a = NoMatch THEN Fail
        ELSE Ok(SkipWS(txt, a), <<Node("logical_operator", txt, p, SkipWS(txt, a), <<>>)>>)

\* The rules below hand each sub-result on as an operator argument: a result
\* is computed once and then read for its offset and for its nodes.

\* a rule whose node spans exactly what its right-hand side x matched
Rule(type, txt, p, x) ==
    IF x.e = NoMatch THEN Fail ELSE Ok(x.e, <<Node(type, txt, p, x.e, x.ns)>>)
\* the nodes ns matched so far, followed by x
Then(ns, x) == IF x.e = NoMatch THEN Fail ELSE Ok(x.e, ns \o x.ns)
\* the alternatives x | y, in order
OrElse(x, y) == IF x.e = NoMatch THEN y ELSE x
\* ( ... )? and the end of ( ... )*: nothing consumed at p when x fails
Optional(p, x) == IF x.e = NoMatch THEN Ok(p, <<>>) ELSE x

RECURSIVE template_value(_, _), template_expr(_, _), FilterCalls(_, _),
          template_filter_call(_, _), template_filter_args(_, _),
          FilterArgsRest(_, _), template_filter_arg(_, _), value(_, _),
          value_atom(_, _), statement(_, _), StatementRest(_, _),
          expression(_, _), standard_expression(_, _), basic_rhs(_, _),
          result(_, _), simple_result(_, _), fcall(_, _), arguments(_, _),
          ArgumentsRest(_, _), argument(_, _)

\* template_value ::= TEMPLATE_BEGIN WS* template_expr WS* TEMPLATE_END
TemplateEnd(txt, p, x) ==
    LET e == IF x.e = NoMatch THEN NoMatch ELSE Lit(txt, SkipWS(txt, x.e), <<"}">>)
    IN  IF e = NoMatch THEN Fail
        ELSE Ok(e, <<Node("template_value", txt, p, e, x.ns)>>)
template_value(txt, p) ==
    LET b == Lit(txt, p, <<"$", "{">>)
    IN  IF b = NoMatch THEN Fail
        ELSE TemplateEnd(txt, p, template_expr(txt, SkipWS(txt, b)))

\* template_expr ::= template_path (WS* template_pipe WS* template_filter_call)*
PathThenCalls(txt, h) ==
    IF h.e = NoMatch THEN Fail ELSE Then(h.ns, FilterCalls(txt, h.e))
template_expr(txt, p) ==
    Rule("template_expr", txt, p, PathThenCalls(txt, template_path(txt, p)))

\* WS* template_pipe WS* template_filter_call, once; template_pipe ::= PIPE
PipedCall(txt, p) ==
    LET q == SkipWS(txt, p)
        b == Lit(txt, q, <<"|">>)
    IN  IF b = NoMatch THEN Fail
        ELSE Then(<<Node("template_pipe", txt, q, b, <<>>)>>,
                  template_filter_call(txt, SkipWS(txt, b)))
MoreCalls(txt, p, g) ==
    IF g.e = NoMatch THEN Ok(p, <<>>) ELSE Then(g.ns, FilterCalls(txt, g.e))
FilterCalls(txt, p) == MoreCalls(txt, p, PipedCall(txt, p))

\* template_filter_call ::= template_filter_name
\*     (WS* BEGIN_ARGUMENT WS* template_filter_args? WS* END_ARGUMENT)?
CloseFilterArgs(txt, q, a) ==
    LET e == Lit(txt, SkipWS(txt, IF a.e = NoMatch THEN q ELSE a.e), <<")">>)
    IN  IF e = NoMatch THEN Fail ELSE Ok(e, a.ns)
FilterCallArgs(txt, p) ==
    LET b == Lit(txt, SkipWS(txt, p), <<"(">>)
    IN  IF b = NoMatch THEN Fail
        ELSE CloseFilterArgs(txt, SkipWS(txt, b), template_filter_args(txt, SkipWS(txt, b)))
NameThenArgs(txt, n) ==
    IF n.e = NoMatch THEN Fail
    ELSE Then(n.ns, Optional(n.e, FilterCallArgs(txt, n.e)))
template_filter_call(txt, p) ==
    Rule("template_filter_call", txt, p, NameThenArgs(txt, template_filter_name(txt, p)))

\* template_filter_args ::= template_filter_arg (WS* "," WS* template_filter_arg)*
CommaFilterArg(txt, p) ==
    LET c == Lit(txt, SkipWS(txt, p), <<",">>)
    IN  IF c = NoMatch THEN Fail ELSE template_filter_arg(txt, SkipWS(txt, c))
MoreFilterArgs(txt, p, a) ==
    IF a.e = NoMatch THEN Ok(p, <<>>) ELSE Then(a.ns, FilterArgsRest(txt, a.e))
FilterArgsRest(txt, p) == MoreFilterArgs(txt, p, CommaFilterArg(txt, p))
FilterArgThenRest(txt, h) ==
    IF h.e = NoMatch THEN Fail ELSE Then(h.ns, FilterArgsRest(txt, h.e))
template_filter_args(txt, p) ==
    Rule("template_filter_args", txt, p, FilterArgThenRest(txt, template_filter_arg(txt, p)))

\* template_filter_arg ::= value | template_value
template_filter_arg(txt, p) ==
    Rule("template_filter_arg", txt, p, OrElse(value(txt, p), template_value(txt, p)))

\* value ::= value_atom (the other alternatives of the host rule left out)
value(txt, p) == Rule("value", txt, p, value_atom(txt, p))

\* value_atom ::= number | template_value: the host alternatives and then
\* the alternative ['template_value'] pushed onto the rule
value_atom(txt, p) ==
    Rule("value_atom", txt, p, OrElse(number(txt, p), template_value(txt, p)))

\* statement ::= expression (logical_operator expression)*
OperatorThenExpression(txt, o) ==
    IF o.e = NoMatch THEN Fail ELSE Then(o.ns, expression(txt, o.e))
MoreExpressions(txt, p, g) ==
    IF g.e = NoMatch THEN Ok(p, <<>>) ELSE Then(g.ns, StatementRest(txt, g.e))
StatementRest(txt, p) ==
    MoreExpressions(txt, p, OperatorThenExpression(txt, logical_operator(txt, p)))
ExpressionThenRest(txt, h) ==
    IF h.e = NoMatch THEN Fail ELSE Then(h.ns, StatementRest(txt, h.e))
statement(txt, p) ==
    Rule("statement", txt, p, ExpressionThenRest(txt, expression(txt, p)))

\* expression ::= not_expression | standard_expression | parenthesis_expression
\* (standard_expression only)
expression(txt, p) == Rule("expression", txt, p, standard_expression(txt, p))

\* standard_expression ||= result ((WS* eq_approx) | (WS* basic_rhs) | ...)?
\* (basic_rhs only)
ResultThenRhs(txt, h) ==
    IF h.e = NoMatch THEN Fail
    ELSE Then(h.ns, Optional(h.e, basic_rhs(txt, SkipWS(txt, h.e))))
standard_expression(txt, p) ==
    Rule("standard_expression", txt, p, ResultThenRhs(txt, result(txt, p)))

\* basic_rhs ::= operator WS* result
OperatorThenResult(txt, o) ==
    IF o.e = NoMatch THEN Fail ELSE Then(o.ns, result(txt, SkipWS(txt, o.e)))
basic_rhs(txt, p) == Rule("basic_rhs", txt, p, OperatorThenResult(txt, operator(txt, p)))

\* result ::= arithmetic_result | simple_result (simple_result only)
result(txt, p) == Rule("result", txt, p, simple_result(txt, p))

\* simple_result ::= fcall | value
simple_result(txt, p) ==
    Rule("simple_result", txt, p, OrElse(fcall(txt, p), value(txt, p)))

\* fcall ::= fname WS* BEGIN_ARGUMENT WS* arguments? END_ARGUMENT
CloseCall(txt, q, a) ==
    LET e == Lit(txt, IF a.e = NoMatch THEN q ELSE a.e, <<")">>)
    IN  IF e = NoMatch THEN Fail ELSE Ok(e, a.ns)
FnameThenArguments(txt, n) ==
    LET b == IF n.e = NoMatch THEN NoMatch ELSE Lit(txt, SkipWS(txt, n.e), <<"(">>)
    IN  IF b = NoMatch THEN Fail
        ELSE Then(n.ns, CloseCall(txt, SkipWS(txt, b), arguments(txt, SkipWS(txt, b))))
fcall(txt, p) == Rule("fcall", txt, p, FnameThenArguments(txt, fname(txt, p)))

\* arguments ::= argument (WS* "," WS* argument)*
CommaArgument(txt, p) ==
    LET c == Lit(txt, SkipWS(txt, p), <<",">>)
    IN  IF c = NoMatch THEN Fail ELSE argument(txt, SkipWS(txt, c))
MoreArguments(txt, p, a) ==
    IF a.e = NoMatch THEN Ok(p, <<>>) ELSE Then(a.ns, ArgumentsRest(txt, a.e))
ArgumentsRest(txt, p) == MoreArguments(txt, p, CommaArgument(txt, p))
ArgumentThenRest(txt, h) ==
    IF h.e = NoMatch THEN Fail ELSE Then(h.ns, ArgumentsRest(txt, h.e))
arguments(txt, p) ==
    Rule("arguments", txt, p, ArgumentThenRest(txt, argument(txt, p)))

\* argument ::= statement WS*
StatementThenWS(txt, p, x) ==
    IF x.e = NoMatch THEN Fail
    ELSE Ok(SkipWS(txt, x.e), <<Node("argument", txt, p, SkipWS(txt, x.e), x.ns)>>)
argument(txt, p) == StatementThenWS(txt, p, statement(txt, p))

\* the root node: statement_main ::= statement EOF
StatementMain(txt, x) ==
    IF x.e = Len(txt) THEN Node("statement_main", txt, 0, x.e, x.ns) ELSE NullNode

\* ParserCache.getAST(text, 'statement_main'); no tree when the text does
\* not match
getAST(txt) == StatementMain(txt, statement(txt, 0))

(***************************************************************************)
(* Bindings, errors and the results of a call                              *)
(***************************************************************************)
VariableTypes == {"string", "number", "boolean", "object", "time period",
                  "time value", "string array", "number array",
                  "boolean array", "object array"}

\* One entry of the caller's variables object.  typeof is that of the entry;
\* own is the set of its own keys among value and type.
Binding(own, v, t) ==
    [typeof |-> "object", isNull |-> FALSE, own |-> own, value |-> v, type |-> t]

\* The variables argument: an object with the given own properties, or a
\* value that is no object (undefined, a string, ...)
VariablesObject(props) == [isObject |-> TRUE, props |-> props]
NotAnObject == [isObject |-> FALSE, props |-> <<>>]
\* variables.hasOwnProperty(varName)
hasOwnProperty(variables, varName) == varName \in DOMAIN variables.props

\* an Error: the message pattern, the name put into it, the type put into it
Error(msg, name, type) == [msg |-> msg, name |-> name, type |-> type]
NoError == Error("", <<>>, "")
\* the messages, with <name> and <type> for what is put into them
Msg ==
    [ VariablesObject |-> "Variables must be provided as an object",
      NotProvided |-> "Variable '<name>' not provided in variables object",
      MustBeObject |-> "Variable '<name>' must be an object",
      MustHaveValue |-> "Variable '<name>' must be an object with 'value' property",
      MustHaveType |-> "Variable '<name>' must have a 'type' property",
      InvalidType |-> "Invalid variable type '<type>' for variable '<name>'",
      UnknownFilter |-> "Unknown filter '<name>'",
      NoInfo |-> "Failed to extract variable information from template node",
      TypeError |-> "TypeError: Cannot read properties of null",
      NotAFunction |-> "TypeError: allowedTypes.includes is not a function" ]

\* a call that returned a string, and a call that threw
Return(str) == [kind |-> "return", str |-> str, err |-> NoError]
Throw(err) == [kind |-> "throw", str |-> <<>>, err |-> err]

(***************************************************************************)
(* RuleTemplate: extraction                                                *)
(***************************************************************************)
\* node.children?.find(c => c.type === type): the first such child
FindChild(node, type) ==
    IF \E i \in 1..Len(node.children) : node.children[i].type = type
    THEN node.children[CHOOSE i \in 1..Len(node.children) :
                          /\ node.children[i].type = type
                          /\ \A j \in 1..(i - 1) : node.children[j].type # type]
    ELSE NullNode

extractFilterName(node) ==
    LET filterNameNode == FindChild(node, "template_filter_name")
    IN  IF filterNameNode = NullNode \/ filterNameNode.text = <<>> THEN <<>>
        ELSE trim(filterNameNode.text)

\* the filter names of the template_filter_call children, in order; a call
\* without a name is skipped
RECURSIVE FilterNames(_, _)
FilterNames(children, i) ==
    IF i > Len(children) THEN <<>>
    ELSE IF children[i].type = "template_filter_call"
              /\ extractFilterName(children[i]) # <<>>
         THEN <<extractFilterName(children[i])>> \o FilterNames(children, i + 1)
         ELSE FilterNames(children, i + 1)

NoVarInfo == [isNull |-> TRUE, name |-> <<>>, filters |-> <<>>, start |-> 0, end |-> 0]

extractVariableFromNode(node) ==
    LET templateExpr == FindChild(node, "template_expr")
        templatePath == FindChild(templateExpr, "template_path")
    IN  IF node.type # "template_value" THEN NoVarInfo
        ELSE IF templateExpr = NullNode THEN NoVarInfo
        ELSE IF templatePath = NullNode \/ templatePath.text = <<>> THEN NoVarInfo
        ELSE [isNull |-> FALSE,
              name |-> trim(templatePath.text),
              filters |-> FilterNames(templateExpr.children, 1),
              start |-> node.start,
              end |-> node.end]

\* variableMap: a Map, kept as the list of its entries in insertion order
MapHas(map, name) == \E i \in 1..Len(map) : map[i].name = name
MapIndex(map, name) == CHOOSE i \in 1..Len(map) : map[i].name = name

\* the body of traverse for one template_value node
RecordVariableAlways(map, varInfo) ==
    Append(map, [name |-> varInfo.name,
                 filters |-> varInfo.filters,
                 positions |-> <<[start |-> varInfo.start, end |-> varInfo.end]>>])
\* as RecordVariable, with the filters of the entry taken from the latest
\* occurrence
RecordVariableLatestFilters(map, varInfo) ==
    IF MapHas(map, varInfo.name)
    THEN [map EXCEPT ![MapIndex(map, varInfo.name)] =
              [name |-> @.name, filters |-> varInfo.filters,
               positions |-> Append(@.positions,
                                    [start |-> varInfo.start, end |-> varInfo.end])]]
    ELSE Append(map, [name |-> varInfo.name,
                      filters |-> varInfo.filters,
                      positions |-> <<[start |-> varInfo.start, end |-> varInfo.end]>>])
RecordVariable(map, varInfo) ==
    IF MapHas(map, varInfo.name)
    THEN [map EXCEPT ![MapIndex(map, varInfo.name)].positions =
              Append(@, [start |-> varInfo.start, end |-> varInfo.end])]
    ELSE Append(map, [name |-> varInfo.name,
                      filters |-> varInfo.filters,
                      positions |-> <<[start |-> varInfo.start, end |-> varInfo.end]>>])

RECURSIVE traverse(_, _), TraverseChildren(_, _, _)
traverse(node, map) ==
    IF node = NullNode THEN map
    ELSE LET varInfo == extractVariableFromNode(node)
             here == IF node.type = "template_value" /\ ~varInfo.isNull
                     THEN RecordVariable(map, varInfo) ELSE map
         IN  TraverseChildren(node.children, 1, here)

\* for (const child of node.children) traverse(child); the test on Len has
\* the map of one child evaluated before the next child is visited
TraverseChildren(children, i, map) ==
    IF i > Len(children) THEN map
    ELSE LET visited == traverse(children[i], map)
         IN  IF Len(visited) >= 0 THEN TraverseChildren(children, i + 1, visited)
             ELSE visited

extractVariables(ast) == traverse(ast, <<>>)

(***************************************************************************)
(* RuleTemplate: validate                                                  *)
(***************************************************************************)
\* the loop over extractedVars; a null entry makes the destructuring throw
RECURSIVE ValidateLoop(_, _, _, _)
ValidateLoop(extractedVars, i, variables, errors) ==
    IF i > Len(extractedVars)
    THEN [kind |-> "return", valid |-> (Len(errors) = 0), errors |-> errors]
    ELSE LET varName == extractedVars[i].name
             varData == variables.props[varName]
         IN  IF ~hasOwnProperty(variables, varName)
             THEN ValidateLoop(extractedVars, i + 1, variables,
                               Append(errors, Error(Msg.NotProvided, varName, "")))
             ELSE IF varData.typeof # "object"
             THEN ValidateLoop(extractedVars, i + 1, variables,
                               Append(errors, Error(Msg.MustBeObject, varName, "")))
             ELSE IF varData.isNull
             THEN [kind |-> "throw", valid |-> FALSE,
                   errors |-> <<Error(Msg.TypeError, <<>>, "")>>]
             ELSE IF "type" \in varData.own /\ varData.type # ""
                     /\ varData.type \notin VariableTypes
             THEN ValidateLoop(extractedVars, i + 1, variables,
                               Append(errors, Error(Msg.InvalidType, varName, varData.type)))
             ELSE ValidateLoop(extractedVars, i + 1, variables, errors)

validate(ast, variables) ==
    IF ~variables.isObject
    THEN [kind |-> "return", valid |-> FALSE,
          errors |-> <<Error(Msg.VariablesObject, <<>>, "")>>]
    ELSE ValidateLoop(extractVariables(ast), 1, variables, <<>>)

(***************************************************************************)
(* RuleTemplate: prepare                                                   *)
(***************************************************************************)
\* the loop over templateInfo.filters: each filter is looked up when its turn
\* comes and applied to the value the previous one returned
RECURSIVE ApplyFiltersRightToLeft(_, _, _, _)
ApplyFiltersRightToLeft(filters, i, val, registry) ==
    IF i > Len(filters) THEN Return(String(val))
    ELSE IF FilterLookup(registry, filters[Len(filters) + 1 - i]) = "undefined"
    THEN Throw(Error(Msg.UnknownFilter, filters[Len(filters) + 1 - i], ""))
    ELSE ApplyFiltersRightToLeft(filters, i + 1,
             ApplyFilter(FilterLookup(registry, filters[Len(filters) + 1 - i]), val),
             registry)
RECURSIVE ApplyFilters(_, _, _, _)
ApplyFilters(filters, i, val, registry) ==
    IF i > Len(filters) THEN Return(String(val))
    ELSE IF FilterLookup(registry, filters[i]) = "undefined"
    THEN Throw(Error(Msg.UnknownFilter, filters[i], ""))
    ELSE ApplyFilters(filters, i + 1,
                      ApplyFilter(FilterLookup(registry, filters[i]), val), registry)

\* `"${String(value).replace(/\\/g, '\\\\').replace(/"/g, '\\"')}"`
QuoteStringQuotesFirst(val) ==
    <<"\"">>
    \o replaceAll(replaceAll(String(val), "\"", <<"\\", "\"">>), "\\", <<"\\", "\\">>)
    \o <<"\"">>
\* the value between two quotes as it is
QuoteStringUnescaped(val) == <<"\"">> \o String(val) \o <<"\"">>
QuoteString(val) ==
    <<"\"">>
    \o replaceAll(replaceAll(String(val), "\\", <<"\\", "\\">>), "\"", <<"\\", "\"">>)
    \o <<"\"">>

\* the conversion by declared type, for a placeholder without filters
FormatBooleanCoerced(type, val) ==
    IF type = "string" THEN QuoteString(val) ELSE String(val)
\* a boolean read off the text of the value: 'false' and '0' give false
FormatBooleanByText(type, val) ==
    IF type = "string" THEN QuoteString(val)
    ELSE IF type = "number" THEN String(val)
    ELSE IF type = "boolean"
    THEN (IF Truthy(val) /\ String(val) \notin {<<"0">>, <<"f","a","l","s","e">>}
          THEN <<"t","r","u","e">> ELSE <<"f","a","l","s","e">>)
    ELSE String(val)
FormatByType(type, val) ==
    IF type = "string" THEN QuoteString(val)
    ELSE IF type = "number" THEN String(val)
    ELSE IF type = "boolean"
    THEN (IF Truthy(val) THEN <<"t","r","u","e">> ELSE <<"f","a","l","s","e">>)
    ELSE String(val)

computeTemplateReplacementTypeOptional(node, variables, registry) ==
    LET templateInfo == extractVariableFromNode(node)
        varName == templateInfo.name
        varData == variables.props[varName]
    IN  IF templateInfo.isNull THEN Throw(Error(Msg.NoInfo, <<>>, ""))
        ELSE IF ~hasOwnProperty(variables, varName)
        THEN Throw(Error(Msg.NotProvided, varName, ""))
        ELSE IF varData.typeof # "object" THEN Throw(Error(Msg.MustHaveValue, varName, ""))
        ELSE IF varData.isNull THEN Throw(Error(Msg.TypeError, <<>>, ""))
        ELSE IF "value" \notin varData.own THEN Throw(Error(Msg.MustHaveValue, varName, ""))
        ELSE IF Len(templateInfo.filters) = 0 /\ "type" \notin varData.own
        THEN Throw(Error(Msg.MustHaveType, varName, ""))
        ELSE IF Len(templateInfo.filters) = 0 /\ varData.type \notin VariableTypes
        THEN Throw(Error(Msg.InvalidType, varName, varData.type))
        ELSE IF Len(templateInfo.filters) > 0
        THEN ApplyFilters(templateInfo.filters, 1, varData.value, registry)
        ELSE Return(FormatByType(varData.type, varData.value))
\* a replacement that hands the written arguments to the filter: default
\* gets its second argument
computeTemplateReplacementWithArguments(node, variables, registry) ==
    LET templateInfo == extractVariableFromNode(node)
        varName == templateInfo.name
        varData == variables.props[varName]
        args == FindChild(FindChild(FindChild(node, "template_expr"),
                                    "template_filter_call"), "template_filter_args")
    IN  IF templateInfo.isNull THEN Throw(Error(Msg.NoInfo, <<>>, ""))
        ELSE IF ~hasOwnProperty(variables, varName)
        THEN Throw(Error(Msg.NotProvided, varName, ""))
        ELSE IF varData.typeof # "object" THEN Throw(Error(Msg.MustHaveValue, varName, ""))
        ELSE IF varData.isNull THEN Throw(Error(Msg.TypeError, <<>>, ""))
        ELSE IF "value" \notin varData.own THEN Throw(Error(Msg.MustHaveValue, varName, ""))
        ELSE IF "type" \notin varData.own THEN Throw(Error(Msg.MustHaveType, varName, ""))
        ELSE IF varData.type \notin VariableTypes
        THEN Throw(Error(Msg.InvalidType, varName, varData.type))
        ELSE IF templateInfo.filters = <<FilterName.default>> /\ args # NullNode
                /\ FilterDefault(varData.value) # varData.value
        THEN Return(trim(args.text))
        ELSE IF Len(templateInfo.filters) > 0
        THEN ApplyFilters(templateInfo.filters, 1, varData.value, registry)
        ELSE Return(FormatByType(varData.type, varData.value))
computeTemplateReplacement(node, variables, registry) ==
    LET templateInfo == extractVariableFromNode(node)
        varName == templateInfo.name
        varData == variables.props[varName]
    IN  IF templateInfo.isNull THEN Throw(Error(Msg.NoInfo, <<>>, ""))
        ELSE IF ~hasOwnProperty(variables, varName)
        THEN Throw(Error(Msg.NotProvided, varName, ""))
        ELSE IF varData.typeof # "object" THEN Throw(Error(Msg.MustHaveValue, varName, ""))
        ELSE IF varData.isNull THEN Throw(Error(Msg.TypeError, <<>>, ""))
        ELSE IF "value" \notin varData.own THEN Throw(Error(Msg.MustHaveValue, varName, ""))
        ELSE IF "type" \notin varData.own THEN Throw(Error(Msg.MustHaveType, varName, ""))
        ELSE IF varData.type \notin VariableTypes
        THEN Throw(Error(Msg.InvalidType, varName, varData.type))
        ELSE IF Len(templateInfo.filters) > 0
        THEN ApplyFilters(templateInfo.filters, 1, varData.value, registry)
        ELSE Return(FormatByType(varData.type, varData.value))

\* the text between the end of the previous child and the start of this one,
\* taken from the node's own text
GapDropped(node, lastEnd, child) == <<>>
GapBefore(node, lastEnd, child) ==
    IF child.start > lastEnd
    THEN substring(node.text, lastEnd - node.start, child.start - node.start)
    ELSE <<>>

\* the text of the node after its last child
RemainingAbsolute(node, lastEnd) ==
    IF lastEnd < node.end THEN substring(node.text, lastEnd, node.end) ELSE <<>>
Remaining(node, lastEnd) ==
    IF lastEnd < node.end
    THEN substring(node.text, lastEnd - node.start, node.end - node.start)
    ELSE <<>>

RECURSIVE rebuildFromAST(_, _, _), RebuildChildren(_, _, _, _, _, _)
\* a rebuild without the guard for a missing node: node.type of null
rebuildFromASTUnguarded(node, variables, registry) ==
    IF node = NullNode THEN Throw(Error(Msg.TypeError, <<>>, ""))
    ELSE IF node.type = "template_value"
    THEN computeTemplateReplacement(node, variables, registry)
    ELSE IF Len(node.children) = 0 THEN Return(node.text)
    ELSE RebuildChildren(node, 1, node.start, <<>>, variables, registry)
rebuildFromAST(node, variables, registry) ==
    IF node = NullNode THEN Return(<<>>)
    ELSE IF node.type = "template_value"
    THEN computeTemplateReplacement(node, variables, registry)
    ELSE IF Len(node.children) = 0 THEN Return(node.text)
    ELSE RebuildChildren(node, 1, node.start, <<>>, variables, registry)

\* the loop over node.children, then the text after the last child; a throw
\* in a child ends the loop
RebuildChildren(node, i, lastEnd, acc, variables, registry) ==
    IF i > Len(node.children)
    THEN Return(acc \o Remaining(node, lastEnd))
    ELSE LET child == node.children[i]
             sub == rebuildFromAST(child, variables, registry)
         IN  IF sub.kind = "throw" THEN sub
             ELSE RebuildChildren(node, i + 1, child.end,
                                  acc \o GapBefore(node, lastEnd, child) \o sub.str,
                                  variables, registry)

\* a substitution by name over the whole text: every occurrence of a
\* variable gets the replacement computed for the entry extractVariables
\* has for it
ReplacementOf(entry, variables, registry) ==
    IF Len(entry.filters) > 0
    THEN ApplyFilters(entry.filters, 1, variables.props[entry.name].value, registry).str
    ELSE FormatByType(variables.props[entry.name].type, variables.props[entry.name].value)
RECURSIVE ReplaceByName(_, _, _, _, _)
ReplaceByName(txt, pos, entries, variables, registry) ==
    IF pos >= Len(txt) THEN <<>>
    ELSE IF \E e \in 1..Len(entries) : \E p \in 1..Len(entries[e].positions) :
                entries[e].positions[p].start = pos
    THEN LET e == CHOOSE e \in 1..Len(entries) :
                     \E p \in 1..Len(entries[e].positions) :
                         entries[e].positions[p].start = pos
             p == CHOOSE p \in 1..Len(entries[e].positions) :
                     entries[e].positions[p].start = pos
         IN  ReplacementOf(entries[e], variables, registry)
             \o ReplaceByName(txt, entries[e].positions[p].end, entries,
                              variables, registry)
    ELSE <<txt[pos + 1]>> \o ReplaceByName(txt, pos + 1, entries, variables, registry)
prepareByName(ast, variables, registry) ==
    IF ~variables.isObject THEN Throw(Error(Msg.VariablesObject, <<>>, ""))
    ELSE IF rebuildFromAST(ast, variables, registry).kind = "throw" \/ ast = NullNode
    THEN rebuildFromAST(ast, variables, registry)
    ELSE Return(ReplaceByName(ast.text, 0, extractVariables(ast), variables, registry))
prepare(ast, variables, registry) ==
    IF ~variables.isObject THEN Throw(Error(Msg.VariablesObject, <<>>, ""))
    ELSE rebuildFromAST(ast, variables, registry)

(***************************************************************************)
(* RuleTemplate.validateVariableNode                                       *)
(***************************************************************************)
\* AllowedTypeMapping: variable type -> the node types allowed for it
AllowedTypeMapping ==
    [ t \in VariableTypes |->
        CASE t = "string" -> <<"string_atom", "string_concat">>
          [] t = "number" -> <<"number_atom", "math_expr">>
          [] t = "boolean" -> <<"boolean_atom", "boolean_expr">>
          [] t = "time period" -> <<"time_period_atom">>
          [] t = "time value" -> <<"time_value_atom", "tod_atom">>
          [] t = "string array" -> <<"string_array">>
          [] t = "number array" -> <<"number_array">>
          [] t = "boolean array" -> <<"boolean_array">>
          [] t = "object" -> <<"object_atom">>
          [] t = "object array" -> <<"object_array">> ]
\* the keys AllowedTypeMapping, an object literal, inherits from
\* Object.prototype; each holds a function (or the prototype for __proto__)
InheritedKeys == {"toString", "constructor", "__proto__"}

\* the astNode argument: null, undefined or an object, whose type property
\* is own or absent
AstNode(k, own, type) == [k |-> k, own |-> own, type |-> type]

\* RuleTemplate.validateVariableNode(astNode, variableType)
validateVariableNode(astNode, variableType) ==
    IF astNode.k # "object" \/ "type" \notin astNode.own \/ astNode.type = ""
    THEN [kind |-> "return", valid |-> FALSE, err |-> NoError]
    ELSE IF variableType \in DOMAIN AllowedTypeMapping
    THEN [kind |-> "return",
          valid |-> \E i \in 1..Len(AllowedTypeMapping[variableType]) :
                       AllowedTypeMapping[variableType][i] = astNode.type,
          err |-> NoError]
    ELSE IF variableType \in InheritedKeys
    THEN [kind |-> "throw", valid |-> FALSE, err |-> Error(Msg.NotAFunction, <<>>, "")]
    ELSE [kind |-> "return", valid |-> FALSE, err |-> NoError]

(***************************************************************************)
(* The composition of the grammar when the module is loaded.  A rule is an *)
(* object {name, bnf}; the arrays hold references, here the indices of the *)
(* objects in the heap.                                                    *)
(***************************************************************************)
\* extendedGrammar.findIndex(r => r.name === name), 0 for -1
findIndex(objects, list, name) ==
    IF \E i \in 1..Len(list) : objects[list[i]].name = name
    THEN CHOOSE i \in 1..Len(list) :
             /\ objects[list[i]].name = name
             /\ \A j \in 1..(i - 1) : objects[list[j]].name # name
    ELSE 0

\* a merge that appends every rule of TemplateGrammar
RECURSIVE MergeAppending(_, _, _, _)
MergeAppending(objects, extendedGrammar, TemplateGrammar, k) ==
    IF k > Len(TemplateGrammar) THEN extendedGrammar
    ELSE MergeAppending(objects, Append(extendedGrammar, TemplateGrammar[k]),
                        TemplateGrammar, k + 1)
\* for (const rule of TemplateGrammar) { ... }, from the k-th rule on
RECURSIVE Merge(_, _, _, _)
Merge(objects, extendedGrammar, TemplateGrammar, k) ==
    IF k > Len(TemplateGrammar) THEN extendedGrammar
    ELSE IF findIndex(objects, extendedGrammar, objects[TemplateGrammar[k]].name) # 0
    THEN Merge(objects,
               [extendedGrammar EXCEPT
                   ![findIndex(objects, extendedGrammar,
                               objects[TemplateGrammar[k]].name)] = TemplateGrammar[k]],
               TemplateGrammar, k + 1)
    ELSE Merge(objects, Append(extendedGrammar, TemplateGrammar[k]),
               TemplateGrammar, k + 1)

(***************************************************************************)
(* The calls a program makes: the template texts, the variables objects    *)
(* and the filters it registers                                            *)
(***************************************************************************)
\* the longest run of spaces put before and after a template text
MaxPad == 1

\* the rule templates a caller parses
T ==
    \* f()
    [ call |-> <<"f","(",")">>,
    \* f( 1 , 2 ) > 3
      literals |-> <<"f","("," ","1"," ",","," ","2"," ",")"," ",">"," ","3">>,
    \* ${X}
      bare |-> <<"$","{","X","}">>,
    \* f(  ${X}  )
      arg_ws |-> <<"f","("," "," ","$","{","X","}"," "," ",")">>,
    \* ${X} > 1 && f(${Y})
      two |-> <<"$","{","X","}"," ",">"," ","1"," ","&","&"," ","f","(","$","{","Y","}",")">>,
    \* f(${X}, ${Y}) && ${X}
      repeat |-> <<"f","(","$","{","X","}",","," ","$","{","Y","}",")"," ","&","&"," ","$","{","X","}">>,
    \* ${Y} && ${X} && ${Y}
      order |-> <<"$","{","Y","}"," ","&","&"," ","$","{","X","}"," ","&","&"," ","$","{","Y","}">>,
    \* f(${X|upper})
      filter |-> <<"f","(","$","{","X","|","u","p","p","e","r","}",")">>,
    \* ${ X | trim | upper }
      chain |-> <<"$","{"," ","X"," ","|"," ","t","r","i","m"," ","|"," ","u","p","p","e","r"," ","}">>,
    \* ${X|zz} && ${Y}
      unknown |-> <<"$","{","X","|","z","z","}"," ","&","&"," ","$","{","Y","}">>,
    \* ${X|toString}
      inherited |-> <<"$","{","X","|","t","o","S","t","r","i","n","g","}">>,
    \* ${X|default(${Y})}
      nested |-> <<"$","{","X","|","d","e","f","a","u","l","t","(","$","{","Y","}",")","}">>,
    \* ${X|default(${X|zz})}
      nested_same |-> <<"$","{","X","|","d","e","f","a","u","l","t","(","$","{","X","|","z","z","}",")","}">>,
    \* ${X|default(1)}
      filter_arg |-> <<"$","{","X","|","d","e","f","a","u","l","t","(","1",")","}">>,
    \* ${X|upper} && ${X|lower}
      divergent |-> <<"$","{","X","|","u","p","p","e","r","}"," ","&","&"," ","$","{","X","|","l","o","w","e","r","}">>,
    \* ${X|reverse}
      custom |-> <<"$","{","X","|","r","e","v","e","r","s","e","}">>,
    \* ${ a.b }
      path |-> <<"$","{"," ","a",".","b"," ","}">>,
    \* f(
      unbalanced |-> <<"f","(">> ]

TemplateTexts == {T.call, T.literals, T.bare, T.arg_ws, T.two, T.repeat, T.order,
                   T.filter, T.chain, T.unknown, T.inherited, T.nested, T.nested_same, T.filter_arg,
                   T.divergent, T.custom, T.path, T.unbalanced}

Spaces(n) == [i \in 1..n |-> " "]
RawTexts == {Spaces(l) \o t \o Spaces(r) : t \in TemplateTexts, l \in 0..MaxPad, r \in 0..MaxPad}

VarX == <<"X">>
VarY == <<"Y">>
\* the entries a caller binds a variable to
Bound ==
    [ GoodString |-> Binding({"value", "type"}, Str(<<"a", "\"">>), "string"),
      GoodNumber |-> Binding({"value", "type"}, Num(7), "number"),
      NoType     |-> Binding({"value"}, Str(<<"a">>), ""),
      NoValue    |-> Binding({"type"}, Undefined, "string"),
      BadType    |-> Binding({"value", "type"}, Str(<<"a">>), "bogus"),
      EmptyType  |-> Binding({"value", "type"}, Str(<<"a">>), ""),
      EmptyValue |-> Binding({"value", "type"}, Str(<<>>), "string"),
      NullValue  |-> Binding({"value", "type"}, Null, "string"),
      UndefinedValue |-> Binding({"value", "type"}, Undefined, "string"),
      Primitive  |-> [typeof |-> "string", isNull |-> FALSE, own |-> {},
                      value |-> Undefined, type |-> ""],
      Null       |-> [typeof |-> "object", isNull |-> TRUE, own |-> {},
                      value |-> Undefined, type |-> ""] ]
BindingsOf(name) ==
    IF name = VarX
    THEN {Bound.GoodString, Bound.GoodNumber, Bound.NoType, Bound.NoValue, Bound.BadType,
          Bound.EmptyType, Bound.EmptyValue, Bound.NullValue, Bound.UndefinedValue,
          Bound.Primitive, Bound.Null}
    ELSE {Bound.GoodString, Bound.NoType}
VariablesArgs ==
    {NotAnObject} \cup
    {VariablesObject(f) :
        f \in UNION {{g \in [D -> BindingsOf(VarX) \cup BindingsOf(VarY)] :
                         \A n \in D : g[n] \in BindingsOf(n)} :
                     D \in SUBSET {VarX, VarY}}}

\* the filters a caller assigns onto RuleTemplate.TemplateFilters
Registrations == {<<FilterName.reverse, "reverse">>, <<FilterName.upper, "reverse">>}

\* the longest string value bound to a variable
MaxStrLen == 2
\* the longest filter chain of a placeholder
MaxChain == 2

\* the string values: every string of at most MaxStrLen of these characters
ValueChars == {"a", "B", " ", "\\", "\""}
Strings == UNION {[1..k -> ValueChars] : k \in 0..MaxStrLen}
OtherValues == {Num(0), Num(7), Num(0 - 3), Bool(TRUE), Bool(FALSE),
                Null, Undefined, NaN, PlainObject,
                Str(<<"0">>), Str(<<"f", "a", "l", "s", "e">>)}
Values == {Str(str) : str \in Strings} \cup OtherValues

\* { X: { value, type } } for every value and every declared type
TypedArgs ==
    {VariablesObject(VarX :> Binding({"value", "type"}, v, t)) :
        v \in Values, t \in VariableTypes}
\* the templates with the one placeholder ${X}
BareTexts == {T.bare, T.arg_ws}

\* ${X|f1|...|fn}
RECURSIVE Piped(_)
Piped(names) ==
    IF names = <<>> THEN <<>> ELSE <<"|">> \o Head(names) \o Piped(Tail(names))
ChainText(names) == <<"$", "{", "X">> \o Piped(names) \o <<"}">>
Chains == UNION {[1..k -> DOMAIN InitialFilters] : k \in 1..MaxChain}
ChainTexts == {ChainText(names) : names \in Chains}
ChainValues == {Str(<<" ", "a", " ", "B">>), Str(<<"-", "3">>), Str(<<>>), Str(<<"n", "o">>),
                Num(0 - 3), Bool(TRUE), Null}
ChainArgs ==
    {VariablesObject(VarX :> Binding({"value", "type"}, v, t)) :
        v \in ChainValues, t \in {"string", "number", "boolean"}}

\* the nodes handed to validateVariableNode: null, undefined, {}, {type: ''}
\* and {type: t} for the node types of the mapping and two that are in none
AstNodes ==
    LET NodeTypes ==
            UNION {{AllowedTypeMapping[t][i] : i \in 1..Len(AllowedTypeMapping[t])} :
                     t \in VariableTypes} \cup {"template_value", "fcall"}
    IN  {AstNode("null", {}, ""), AstNode("undefined", {}, ""),
         AstNode("object", {}, ""), AstNode("object", {"type"}, "")}
        \cup {AstNode("object", {"type"}, t) : t \in NodeTypes}
\* the declared types handed to it: the ten, one that is no key at all and
\* the inherited keys
DeclaredTypes == VariableTypes \cup {"invalid_type"} \cup InheritedKeys

\* the longest rule list of the host and of the extension
MaxRules == 2
\* the heaps a load can start from: the rule objects of the host, with
\* pairwise distinct names, then those of the extension; no array composed
Loads ==
    LET hosts == {h \in UNION {[1..n -> {"value_atom", "WS", "number_atom"}] :
                                  n \in 0..MaxRules} :
                     \A i, j \in 1..Len(h) : i # j => h[i] # h[j]}
        exts == UNION {[1..n -> {"value_atom", "WS", "number_atom", "template_value"}] :
                         n \in 0..MaxRules}
    IN  {[objects |-> [i \in 1..Len(h) |-> [name |-> h[i], bnf |-> <<<<"RuleParser">>>>]]
                      \o [i \in 1..Len(e) |-> [name |-> e[i], bnf |-> <<<<"RuleTemplate">>>>]],
          RuleParserRules |-> [i \in 1..Len(h) |-> i],
          TemplateGrammar |-> [i \in 1..Len(e) |-> Len(h) + i],
          ParserRules |-> <<>>,
          loaded |-> FALSE] : h \in hosts, e \in exts}

(***************************************************************************)
(* State                                                                   *)
(***************************************************************************)
VARIABLES
    ParserCache,      \* the module-level cached Parser: 0 for null, k for the
                      \* k-th Parser the module constructed
    TemplateFilters,  \* the registry: filter name -> function
    template,         \* the RuleTemplate instance the caller holds
    variables,        \* the variables argument of the pending validate or prepare
    nodeCall,         \* the arguments of the pending validateVariableNode
    grammar,          \* the rule objects and arrays of a module being loaded
    outcome           \* what that call returned or threw; op "none": no call pending

vars == <<ParserCache, TemplateFilters, template, variables, nodeCall, grammar, outcome>>

NoTemplate == [made |-> FALSE, ruleTemplateText |-> <<>>, ast |-> NullNode]
Outcome(op, kind, str, err, list, valid) ==
    [op |-> op, kind |-> kind, str |-> str, err |-> err, list |-> list, valid |-> valid]
NoOutcome == Outcome("none", "return", <<>>, NoError, <<>>, FALSE)
NoNodeCall == [astNode |-> AstNode("undefined", {}, ""), variableType |-> ""]
\* after the load the arrays are the Parser's; the calls do not look at them
NoGrammar == [objects |-> <<>>, RuleParserRules |-> <<>>, TemplateGrammar |-> <<>>,
              ParserRules |-> <<>>, loaded |-> TRUE]

Init ==
    /\ ParserCache = 0
    /\ TemplateFilters = InitialFilters
    /\ template = NoTemplate
    /\ variables = NotAnObject
    /\ nodeCall = NoNodeCall
    /\ grammar = NoGrammar
    /\ outcome = NoOutcome

\* a parse that constructs a Parser at every call
ParseConstructing(ruleTemplate) ==
    /\ outcome.op = "none"
    /\ ParserCache' = ParserCache + 1
    /\ template' = [made |-> TRUE, ruleTemplateText |-> ruleTemplate,
                    ast |-> getAST(trim(ruleTemplate))]
    /\ outcome' = Outcome("parse", "return", <<>>, NoError, <<>>, FALSE)
    /\ UNCHANGED <<TemplateFilters, variables, nodeCall, grammar>>
\* RuleTemplate.parse(ruleTemplate)
Parse(ruleTemplate) ==
    /\ outcome.op = "none"
    /\ ParserCache' = (IF ParserCache = 0 THEN ParserCache + 1 ELSE ParserCache)
    /\ template' = [made |-> TRUE, ruleTemplateText |-> ruleTemplate,
                    ast |-> getAST(trim(ruleTemplate))]
    /\ outcome' = Outcome("parse", "return", <<>>, NoError, <<>>, FALSE)
    /\ UNCHANGED <<TemplateFilters, variables, nodeCall, grammar>>

\* an extraction that looks at the registry: the filter names that are not
\* in it at the call are left out of the entries
ExtractVariablesRegistered ==
    /\ outcome.op = "none"
    /\ template.made
    /\ LET list == extractVariables(template.ast)
           Known(f) == f \in DOMAIN TemplateFilters
       IN  outcome' = Outcome("extractVariables", "return", <<>>, NoError,
                              [i \in 1..Len(list) |->
                                  [list[i] EXCEPT !.filters = SelectSeq(@, Known)]],
                              FALSE)
    /\ UNCHANGED <<ParserCache, TemplateFilters, template, variables, nodeCall, grammar>>
\* ruleTemplate.extractVariables()
ExtractVariables ==
    /\ outcome.op = "none"
    /\ template.made
    /\ outcome' = Outcome("extractVariables", "return", <<>>, NoError,
                          extractVariables(template.ast), FALSE)
    /\ UNCHANGED <<ParserCache, TemplateFilters, template, variables, nodeCall, grammar>>

\* ruleTemplate.validate(variables)
Validate(args) ==
    /\ outcome.op = "none"
    /\ template.made
    /\ variables' = args
    /\ LET r == validate(template.ast, args)
       IN  outcome' = Outcome("validate", r.kind, <<>>, NoError, r.errors, r.valid)
    /\ UNCHANGED <<ParserCache, TemplateFilters, template, nodeCall, grammar>>

\* a prepare that substitutes in the tree of the instance: the instance is
\* left with the tree of what it returned
PrepareInPlace(args) ==
    /\ outcome.op = "none"
    /\ template.made
    /\ variables' = args
    /\ LET r == prepare(template.ast, args, TemplateFilters)
       IN  /\ outcome' = Outcome("prepare", r.kind, r.str, r.err, <<>>, FALSE)
           /\ template' = [template EXCEPT
                               !.ast = IF r.kind = "return" THEN getAST(r.str) ELSE @]
    /\ UNCHANGED <<ParserCache, TemplateFilters, nodeCall, grammar>>
\* ruleTemplate.prepare(variables)
Prepare(args) ==
    /\ outcome.op = "none"
    /\ template.made
    /\ variables' = args
    /\ LET r == prepare(template.ast, args, TemplateFilters)
       IN  outcome' = Outcome("prepare", r.kind, r.str, r.err, <<>>, FALSE)
    /\ UNCHANGED <<ParserCache, TemplateFilters, template, nodeCall, grammar>>

\* RuleTemplate.TemplateFilters[name] = fn
RegisterFilter(name, fn) ==
    /\ outcome.op = "none"
    /\ TemplateFilters' = (name :> fn) @@ TemplateFilters
    /\ outcome' = Outcome("register", "return", <<>>, NoError, <<>>, FALSE)
    /\ UNCHANGED <<ParserCache, template, variables, nodeCall, grammar>>

\* RuleTemplate.validateVariableNode(astNode, variableType)
ValidateVariableNode(astNode, variableType) ==
    /\ outcome.op = "none"
    /\ nodeCall' = [astNode |-> astNode, variableType |-> variableType]
    /\ LET r == validateVariableNode(astNode, variableType)
       IN  outcome' = Outcome("validateVariableNode", r.kind, <<>>, r.err, <<>>, r.valid)
    /\ UNCHANGED <<ParserCache, TemplateFilters, template, variables, grammar>>

\* the caller takes what the call returned or threw and goes on
Continue ==
    /\ outcome.op # "none"
    /\ outcome' = NoOutcome
    /\ variables' = NotAnObject
    /\ nodeCall' = NoNodeCall
    /\ UNCHANGED <<ParserCache, TemplateFilters, template, grammar>>

Next ==
    \/ \E raw \in RawTexts : Parse(raw)
    \/ ExtractVariables
    \/ \E args \in VariablesArgs : Validate(args)
    \/ \E args \in VariablesArgs : Prepare(args)
    \/ \E reg \in Registrations : RegisterFilter(reg[1], reg[2])
    \/ Continue

Spec == Init /\ [][Next]_vars

\* a caller that prepares ${X} with every value under every declared type
NextTyped ==
    \/ \E raw \in BareTexts : Parse(raw)
    \/ \E args \in TypedArgs : Prepare(args)
    \/ Continue
TypedSpec == Init /\ [][NextTyped]_vars

\* a caller that parses one template ${X|f1|...|fn}, of any chain of built-in
\* filters, and prepares it with one binding after another
ParseOnce(ruleTemplate) == ~template.made /\ Parse(ruleTemplate)
NextChain ==
    \/ \E raw \in ChainTexts : ParseOnce(raw)
    \/ \E args \in ChainArgs : Prepare(args)
    \/ Continue
ChainSpec == Init /\ [][NextChain]_vars

\* the module being loaded: part_003 lines 36 to 54 in one step
Compose ==
    /\ ~grammar.loaded
    /\ LET extendedGrammar == Merge(grammar.objects, grammar.RuleParserRules,
                                    grammar.TemplateGrammar, 1)
           valueAtomIdx == findIndex(grammar.objects, extendedGrammar, "value_atom")
       IN  grammar' = [grammar EXCEPT
               !.objects = IF valueAtomIdx # 0
                           THEN [@ EXCEPT ![extendedGrammar[valueAtomIdx]].bnf =
                                               Append(@, <<"template_value">>)]
                           ELSE @,
               !.ParserRules = extendedGrammar,
               !.loaded = TRUE]
    /\ UNCHANGED <<ParserCache, TemplateFilters, template, variables, nodeCall, outcome>>
InitGrammar ==
    /\ ParserCache = 0
    /\ TemplateFilters = InitialFilters
    /\ template = NoTemplate
    /\ variables = NotAnObject
    /\ nodeCall = NoNodeCall
    /\ grammar \in Loads
    /\ outcome = NoOutcome
NextGrammar == Compose
GrammarSpec == InitGrammar /\ [][NextGrammar]_vars

\* a caller that only asks whether nodes match declared types
NextNode ==
    \/ \E astNode \in AstNodes, variableType \in DeclaredTypes :
          ValidateVariableNode(astNode, variableType)
    \/ Continue
NodeSpec == Init /\ [][NextNode]_vars

(***************************************************************************)
(* What the results are compared with                                      *)
(***************************************************************************)
\* children ordered, not overlapping and inside the span of their parent
RECURSIVE WellFormed(_)
WellFormed(node) ==
    /\ node.start <= node.end
    /\ Len(node.text) = node.end - node.start
    /\ \A i \in 1..Len(node.children) :
          /\ node.start <= node.children[i].start
          /\ node.children[i].end <= node.end
          /\ i > 1 => node.children[i - 1].end <= node.children[i].start
          /\ WellFormed(node.children[i])

\* the template_value nodes that lie in no other template_value, left to right
RECURSIVE Outermost(_), OutermostOf(_, _)
Outermost(node) ==
    IF node = NullNode THEN <<>>
    ELSE IF node.type = "template_value" THEN <<node>>
    ELSE OutermostOf(node.children, 1)
OutermostOf(children, i) ==
    IF i > Len(children) THEN <<>>
    ELSE Outermost(children[i]) \o OutermostOf(children, i + 1)

\* every template_value node, in pre-order
RECURSIVE Occurrences(_), OccurrencesOf(_, _)
Occurrences(node) ==
    IF node = NullNode THEN <<>>
    ELSE (IF node.type = "template_value" THEN <<node>> ELSE <<>>)
         \o OccurrencesOf(node.children, 1)
OccurrencesOf(children, i) ==
    IF i > Len(children) THEN <<>>
    ELSE Occurrences(children[i]) \o OccurrencesOf(children, i + 1)

\* txt from offset pos on, with the span of each of nodes[i..] replaced by
\* the replacement computed for that node
RECURSIVE Splice(_, _, _, _, _, _)
Splice(txt, nodes, i, pos, bindings, registry) ==
    IF i > Len(nodes) THEN substring(txt, pos, Len(txt))
    ELSE substring(txt, pos, nodes[i].start)
         \o computeTemplateReplacement(nodes[i], bindings, registry).str
         \o Splice(txt, nodes, i + 1, nodes[i].end, bindings, registry)

Prepared == outcome.op = "prepare" /\ template.ast # NullNode
Returned == Prepared /\ outcome.kind = "return"
Raised == Prepared /\ outcome.kind = "throw"
Extracted == outcome.op = "extractVariables" /\ template.ast # NullNode

\* C1: when prepare succeeds on a well-formed tree, its output is ast.text
\* with the span of each outermost template_value node replaced by the
\* replacement computed for that node, and every character outside those
\* spans reproduced unchanged and in the same order.
C1_Splice ==
    (Returned /\ WellFormed(template.ast))
        => outcome.str = Splice(template.ast.text, Outermost(template.ast), 1, 0,
                                variables, TemplateFilters)
\* f(${X}, ${Y}) && ${X} prepared with both variables bound
C1_Witness ==
    /\ Returned
    /\ WellFormed(template.ast)
    /\ template.ast.text = T.repeat
    /\ Len(Outermost(template.ast)) = 3
    /\ outcome.str # T.repeat

\* C2 as stated: for every text with no placeholder that parses, leading and
\* trailing whitespace included, prepare returns the text exactly.
C2_RoundTripExact ==
    (Returned /\ variables.isObject /\ "$" \notin Range(template.ruleTemplateText))
        => outcome.str = template.ruleTemplateText
\* C2: for every text with no placeholder that parses, prepare returns the
\* text without its leading and trailing whitespace, which is the text
\* itself when it has none.
C2_RoundTripTrimmed ==
    (Returned /\ variables.isObject /\ "$" \notin Range(template.ruleTemplateText))
        => /\ outcome.str = trim(template.ruleTemplateText)
           /\ (template.ruleTemplateText[1] # " "
               /\ template.ruleTemplateText[Len(template.ruleTemplateText)] # " ")
                  => outcome.str = template.ruleTemplateText
\* f( 1 , 2 ) > 3 with a space before and after it, prepared with {}
C2_Witness ==
    /\ Returned
    /\ variables = VariablesObject(<<>>)
    /\ template.ruleTemplateText = <<" ">> \o T.literals \o <<" ">>
    /\ outcome.str = T.literals

\* the index of the first occurrence of name among the template_value nodes
FirstOccurrence(occ, name) ==
    CHOOSE k \in 1..Len(occ) :
        /\ extractVariableFromNode(occ[k]).name = name
        /\ \A j \in 1..(k - 1) : extractVariableFromNode(occ[j]).name # name
\* the spans of the occurrences of name, in pre-order
RECURSIVE SpansOf(_, _, _)
SpansOf(occ, k, name) ==
    IF k > Len(occ) THEN <<>>
    ELSE (IF extractVariableFromNode(occ[k]).name = name
          THEN <<[start |-> occ[k].start, end |-> occ[k].end]>> ELSE <<>>)
         \o SpansOf(occ, k + 1, name)

\* C3: extractVariables returns exactly one entry per distinct variable
\* name, the entries ordered by the first occurrence of each name in
\* pre-order; an entry's positions hold exactly one {start,end} per
\* occurrence of the name, in strictly increasing source order.
C3_Entries ==
    Extracted =>
        LET occ == Occurrences(template.ast)
            list == outcome.list
        IN  /\ {list[i].name : i \in 1..Len(list)}
                  = {extractVariableFromNode(occ[k]).name : k \in 1..Len(occ)}
            /\ \A i, j \in 1..Len(list) : i # j => list[i].name # list[j].name
            /\ \A i, j \in 1..Len(list) :
                  i < j => FirstOccurrence(occ, list[i].name)
                             < FirstOccurrence(occ, list[j].name)
            /\ \A i \in 1..Len(list) :
                  /\ list[i].positions = SpansOf(occ, 1, list[i].name)
                  /\ \A k, l \in 1..Len(list[i].positions) :
                        k < l => list[i].positions[k].start < list[i].positions[l].start
\* ${Y} && ${X} && ${Y}: Y first with two positions, then X with one
C3_Witness ==
    /\ Extracted
    /\ template.ast.text = T.order
    /\ Len(outcome.list) = 2
    /\ outcome.list[1].name = VarY
    /\ Len(outcome.list[1].positions) = 2
    /\ outcome.list[2].name = VarX

\* the text of one placeholder occurrence
IsPlaceholderText(txt) ==
    /\ Len(txt) >= 3
    /\ txt[1] = "$" /\ txt[2] = "{" /\ txt[Len(txt)] = "}"
    /\ template_value(txt, 0).e = Len(txt)

\* C4: every position {start,end} extractVariables reports is a pair of
\* offsets into the string passed to parse, kept in ruleTemplateText:
\* ruleTemplateText.substring(start, end) is the text of one placeholder.
C4_OffsetsIntoTemplateText ==
    Extracted =>
        \A i \in 1..Len(outcome.list) :
            \A k \in 1..Len(outcome.list[i].positions) :
                IsPlaceholderText(substring(template.ruleTemplateText,
                                            outcome.list[i].positions[k].start,
                                            outcome.list[i].positions[k].end))

\* what prepare put in the place of the one placeholder of the template
TheNode == Outermost(template.ast)[1]
TheReplacement ==
    SubSeq(outcome.str, TheNode.start + 1,
           Len(outcome.str) - (Len(template.ast.text) - TheNode.end))
TheBinding == variables.props[VarX]
Literal_true == <<"t", "r", "u", "e">>
Literal_false == <<"f", "a", "l", "s", "e">>
\* one character of a string value as it stands between the quotes
EscapedChar(c) ==
    IF c = "\\" THEN <<"\\", "\\">> ELSE IF c = "\"" THEN <<"\\", "\"">> ELSE <<c>>
RECURSIVE Escaped(_)
Escaped(str) ==
    IF str = <<>> THEN <<>> ELSE EscapedChar(Head(str)) \o Escaped(Tail(str))
\* \\ to \ and \" to "
RECURSIVE Unescaped(_)
Unescaped(str) ==
    IF str = <<>> THEN <<>>
    ELSE IF Head(str) = "\\" /\ Len(str) >= 2
    THEN <<str[2]>> \o Unescaped(SubSeq(str, 3, Len(str)))
    ELSE <<Head(str)>> \o Unescaped(Tail(str))

\* C5: for a placeholder without filters and a binding with value and type,
\* the replacement is decided by the declared type: string gives the value
\* in double quotes with escaping, number the numeric literal text of the
\* value, boolean the literal true or false, and each of the seven other
\* types the plain string coercion of the value.
C5_ByType ==
    (Returned /\ template.ast.text \in BareTexts) =>
        LET v == TheBinding.value
            t == TheBinding.type
        IN  /\ t = "string" =>
                  TheReplacement = <<"\"">> \o Escaped(String(v)) \o <<"\"">>
            /\ t = "number" => TheReplacement = String(v)
            /\ (t = "number" /\ v.k = "number") => TheReplacement = NumberToString(v.n)
            /\ t = "boolean" =>
                  TheReplacement = (IF Truthy(v) THEN Literal_true ELSE Literal_false)
            /\ t \in VariableTypes \ {"string", "number", "boolean"} =>
                  TheReplacement = String(v)
\* f(  ${X}  ) with the string a under type boolean gives f(  true  )
C5_Witness ==
    /\ Returned
    /\ template.ast.text = T.arg_ws
    /\ TheBinding.type = "boolean"
    /\ TheBinding.value = Str(<<"a">>)
    /\ TheReplacement = Literal_true

\* C6: for every string value over an alphabet with the backslash and the
\* double quote, the replacement under type string is a double quote, the
\* value with every backslash doubled and every double quote prefixed by a
\* backslash, and a double quote; unescaping what stands between the quotes
\* gives back the value.
C6_EscapeRoundTrip ==
    (Returned /\ template.ast.text \in BareTexts
              /\ TheBinding.type = "string" /\ TheBinding.value.k = "string") =>
        LET r == TheReplacement
            body == SubSeq(r, 2, Len(r) - 1)
        IN  /\ Len(r) >= 2 /\ r[1] = "\"" /\ r[Len(r)] = "\""
            /\ body = Escaped(TheBinding.value.s)
            /\ Unescaped(body) = TheBinding.value.s
\* the value "\ (a quote, then a backslash) becomes "\"\\"
C6_Witness ==
    /\ Returned
    /\ template.ast.text = T.bare
    /\ TheBinding.type = "string"
    /\ TheBinding.value = Str(<<"\"", "\\">>)
    /\ outcome.str = <<"\"", "\\", "\"", "\\", "\\", "\"">>

\* fn(...f2(f1(v))) for the chain f1|...|fn
RECURSIVE Composed(_, _)
Composed(names, v) ==
    IF names = <<>> THEN v
    ELSE ApplyFilter(InitialFilters[names[Len(names)]],
                     Composed(SubSeq(names, 1, Len(names) - 1), v))
\* the names between the bars of ${X|f1|...|fn}
RECURSIVE SplitBars(_, _)
SplitBars(str, cur) ==
    IF str = <<>> THEN <<cur>>
    ELSE IF Head(str) = "|" THEN <<cur>> \o SplitBars(Tail(str), <<>>)
    ELSE SplitBars(Tail(str), Append(cur, Head(str)))
TheChain ==
    SplitBars(SubSeq(template.ruleTemplateText, 5, Len(template.ruleTemplateText) - 1), <<>>)

\* C7: for a placeholder with the chain f1|...|fn, n >= 1, and the bound
\* value v, the replacement is the plain string coercion of
\* fn(...f2(f1(v))): the filters are applied left to right, each on the
\* output of the one before, and nothing is quoted or formatted by the
\* declared type afterwards.
C7_ChainLeftToRight ==
    (Returned /\ template.ruleTemplateText = ChainText(TheChain) /\ Len(TheChain) >= 1) =>
        outcome.str = String(Composed(TheChain, TheBinding.value))
\* ${X|upper|lower} with " a B" under type string gives " a b", unquoted
C7_Witness ==
    /\ Returned
    /\ template.ruleTemplateText = ChainText(<<FilterName.upper, FilterName.lower>>)
    /\ TheBinding.type = "string"
    /\ TheBinding.value = Str(<<" ", "a", " ", "B">>)
    /\ outcome.str = <<" ", "a", " ", "b">>

\* the variable name and the filter chain of a template_value node
NameOf(node) == extractVariableFromNode(node).name
ChainOf(node) == extractVariableFromNode(node).filters
\* an entry { value, type } with one of the declared types
WellBound(name) ==
    /\ hasOwnProperty(variables, name)
    /\ variables.props[name].typeof = "object"
    /\ ~variables.props[name].isNull
    /\ variables.props[name].own = {"value", "type"}
    /\ variables.props[name].type \in VariableTypes
\* the names put into the registry: the thirteen of the object literal and
\* the ones a caller assigned
Registered(name) == name \in DOMAIN TemplateFilters
HasUnknown(node) == \E k \in 1..Len(ChainOf(node)) : ~Registered(ChainOf(node)[k])
FirstUnknown(node) ==
    ChainOf(node)[CHOOSE k \in 1..Len(ChainOf(node)) :
                     /\ ~Registered(ChainOf(node)[k])
                     /\ \A j \in 1..(k - 1) : Registered(ChainOf(node)[j])]

\* C8: prepare raises Unknown filter '<name>' for every placeholder whose
\* chain has a name that was never put into the registry, neither one of
\* the thirteen pre-populated names nor one the caller registered.  Stated
\* for the substituted placeholders of a template whose variables are all
\* bound to { value, type }: the first such placeholder decides the error.
C8_UnknownFilterRaises ==
    LET nodes == Outermost(template.ast)
    IN  (/\ Prepared /\ variables.isObject
         /\ \A i \in 1..Len(nodes) : WellBound(NameOf(nodes[i]))
         /\ \E i \in 1..Len(nodes) : HasUnknown(nodes[i]))
        => LET first == CHOOSE i \in 1..Len(nodes) :
                            /\ HasUnknown(nodes[i])
                            /\ \A j \in 1..(i - 1) : ~HasUnknown(nodes[j])
           IN  /\ outcome.kind = "throw"
               /\ outcome.err = Error(Msg.UnknownFilter, FirstUnknown(nodes[first]), "")

\* C9: when one or more placeholders of a template have no binding, prepare
\* raises Variable '<name>' not provided for the first of them in
\* depth-first left-to-right order and returns no string.  Stated for
\* templates whose filters are all registered and maps whose entries are
\* all { value, type }, so that a missing binding is the only fault.
C9_FirstUnboundRaises ==
    LET occ == Occurrences(template.ast)
    IN  (/\ Prepared /\ variables.isObject
         /\ \A k \in 1..Len(occ) :
               /\ ~HasUnknown(occ[k])
               /\ hasOwnProperty(variables, NameOf(occ[k])) => WellBound(NameOf(occ[k]))
         /\ \E k \in 1..Len(occ) : ~hasOwnProperty(variables, NameOf(occ[k])))
        => LET first == CHOOSE k \in 1..Len(occ) :
                            /\ ~hasOwnProperty(variables, NameOf(occ[k]))
                            /\ \A j \in 1..(k - 1) : hasOwnProperty(variables, NameOf(occ[j]))
           IN  /\ outcome.kind = "throw"
               /\ outcome.err = Error(Msg.NotProvided, NameOf(occ[first]), "")

\* an entry with a value and no type key
ValueWithoutType(name) ==
    /\ hasOwnProperty(variables, name)
    /\ variables.props[name].typeof = "object"
    /\ ~variables.props[name].isNull
    /\ variables.props[name].own = {"value"}

Malformed(name) ==
    /\ hasOwnProperty(variables, name)
    /\ \/ variables.props[name].typeof # "object"
       \/ variables.props[name].isNull
       \/ "value" \notin variables.props[name].own

\* C11: for every placeholder whose binding exists but is not an object or
\* has no own value key (a string, a number, null, an object without
\* value), prepare raises Variable '<name>' must be an object with 'value'
\* property.  Stated for the first substituted placeholder with such a
\* binding, the ones before it having gone through.
C11_MalformedRaises ==
    (Prepared /\ variables.isObject) =>
        LET nodes == Outermost(template.ast)
        IN  \A i \in 1..Len(nodes) :
                (/\ Malformed(NameOf(nodes[i]))
                 /\ \A j \in 1..(i - 1) :
                       computeTemplateReplacement(nodes[j], variables,
                                                  TemplateFilters).kind = "return")
                => /\ outcome.kind = "throw"
                   /\ outcome.err = Error(Msg.MustHaveValue, NameOf(nodes[i]), "")

\* C12: validate never raises: for every parsed template and every bindings
\* argument (no object, or a map whose entries are missing, null,
\* primitives, objects without type or with an invalid type) it returns a
\* {valid, errors} value.
C12_ValidateReturns == outcome.op = "validate" => outcome.kind = "return"

\* the distinct variable names of the template, in first-seen order
RECURSIVE Distinct(_)
Distinct(names) ==
    IF names = <<>> THEN <<>>
    ELSE LET front == Distinct(SubSeq(names, 1, Len(names) - 1))
             last == names[Len(names)]
         IN  IF \E i \in 1..Len(front) : front[i] = last THEN front
             ELSE Append(front, last)
NamesOf(ast) ==
    LET occ == Occurrences(ast) IN Distinct([k \in 1..Len(occ) |-> NameOf(occ[k])])
\* an entry validate has something to say about
Problem(name) ==
    \/ ~hasOwnProperty(variables, name)
    \/ variables.props[name].typeof # "object"
    \/ variables.props[name].isNull
    \/ /\ "type" \in variables.props[name].own
       /\ variables.props[name].type # ""
       /\ variables.props[name].type \notin VariableTypes
RECURSIVE Problems(_)
Problems(names) ==
    IF names = <<>> THEN <<>>
    ELSE (IF Problem(Head(names)) THEN <<Head(names)>> ELSE <<>>)
         \o Problems(Tail(names))

\* C13: validate does not stop at the first problem: it examines every
\* extracted variable, appends at most one error per distinct variable
\* name, in first-seen order, and returns valid = true exactly when the
\* errors list is empty.
C13_CollectsAll ==
    (outcome.op = "validate" /\ variables.isObject) =>
        /\ outcome.kind = "return"
        /\ [i \in 1..Len(outcome.list) |-> outcome.list[i].name]
              = Problems(NamesOf(template.ast))
        /\ outcome.valid <=> (Len(outcome.list) = 0)

\* C14: for every binding object with a type key whose value is not one of
\* the ten VariableTypes, validate appends an Invalid variable type error
\* naming the bad value and the variable, so valid is false.
C14_InvalidTypeReported ==
    (outcome.op = "validate" /\ outcome.kind = "return" /\ variables.isObject) =>
        LET names == NamesOf(template.ast)
        IN  \A k \in 1..Len(names) :
                (/\ hasOwnProperty(variables, names[k])
                 /\ variables.props[names[k]].typeof = "object"
                 /\ ~variables.props[names[k]].isNull
                 /\ "type" \in variables.props[names[k]].own
                 /\ variables.props[names[k]].type \notin VariableTypes)
                => /\ ~outcome.valid
                   /\ \E i \in 1..Len(outcome.list) :
                         outcome.list[i] = Error(Msg.InvalidType, names[k],
                                                 variables.props[names[k]].type)

\* C15: validateVariableNode never raises; it returns false for a null or
\* undefined node, for a node whose type is not in the set mapped from the
\* declared type and for every declared type that is not one of the ten
\* VariableTypes; it returns true exactly when the type of the node is a
\* member of the set of the declared type.
C15_NeverRaises ==
    outcome.op = "validateVariableNode" =>
        /\ outcome.kind = "return"
        /\ outcome.valid <=>
              /\ nodeCall.astNode.k = "object"
              /\ "type" \in nodeCall.astNode.own
              /\ nodeCall.variableType \in VariableTypes
              /\ nodeCall.astNode.type
                    \in Range(AllowedTypeMapping[nodeCall.variableType])

\* fn(...f2(f1(v))) for the chain f1|...|fn, each name resolved in the
\* registry as it is now
RECURSIVE AppliedNow(_, _)
AppliedNow(names, v) ==
    IF names = <<>> THEN v
    ELSE ApplyFilter(TemplateFilters[names[Len(names)]],
                     AppliedNow(SubSeq(names, 1, Len(names) - 1), v))
\* a template with one placeholder, bound to { value, type }, with a chain
\* whose names are all in the registry
OneFiltered ==
    /\ Prepared /\ variables.isObject
    /\ Len(Outermost(template.ast)) = 1
    /\ WellBound(NameOf(TheNode))
    /\ Len(ChainOf(TheNode)) >= 1
    /\ \A k \in 1..Len(ChainOf(TheNode)) : Registered(ChainOf(TheNode)[k])

\* C16: the registry is late-bound: whatever parse, register-filter and
\* prepare operations came before, prepare resolves every filter name in
\* the registry as it is at that call, so a filter registered or replaced
\* after parse is the one applied to the template parsed before.
C16_LateBound ==
    OneFiltered =>
        /\ outcome.kind = "return"
        /\ TheReplacement
              = String(AppliedNow(ChainOf(TheNode), variables.props[NameOf(TheNode)].value))
\* f(${X|upper}) with upper replaced by the reversing function, and X bound
\* to the string a": the replacement is "a, not A"
C16_Witness ==
    /\ OneFiltered
    /\ template.ast.text = T.filter
    /\ TemplateFilters[FilterName.upper] = "reverse"
    /\ variables.props[VarX].value = Str(<<"a", "\"">>)
    /\ TheReplacement = <<"\"", "a">>

\* C17: parse fails by raising when the text does not match the grammar
\* from statement_main: no instance is returned for a text the parser could
\* not match, so the instance a caller holds never has an absent ast.
C17_ParseRaises ==
    /\ (outcome.op = "parse" /\ getAST(trim(template.ruleTemplateText)) = NullNode)
          => outcome.kind = "throw"
    /\ template.made => template.ast # NullNode

\* what one placeholder stands for by itself: its own chain applied to the
\* value bound to its name or, without a chain, the value in the form of
\* its declared type
OwnReplacement(node) ==
    LET v == variables.props[NameOf(node)].value
        t == variables.props[NameOf(node)].type
    IN  IF Len(ChainOf(node)) > 0 THEN String(AppliedNow(ChainOf(node), v))
        ELSE IF t = "string" THEN <<"\"">> \o Escaped(String(v)) \o <<"\"">>
        ELSE IF t = "boolean" THEN (IF Truthy(v) THEN Literal_true ELSE Literal_false)
        ELSE String(v)
\* by how much the replacements of nodes[1..i] make the text longer
RECURSIVE Growth(_, _)
Growth(nodes, i) ==
    IF i = 0 THEN 0
    ELSE Growth(nodes, i - 1)
         + Len(OwnReplacement(nodes[i])) - (nodes[i].end - nodes[i].start)
\* every placeholder is bound to { value, type } and has a chain whose
\* names are all in the registry
AllResolved(nodes) ==
    \A i \in 1..Len(nodes) :
        /\ WellBound(NameOf(nodes[i]))
        /\ \A k \in 1..Len(ChainOf(nodes[i])) : Registered(ChainOf(nodes[i])[k])

\* C18: each placeholder node is substituted on its own: where the node
\* stood, the output has the result of that occurrence's own chain, also
\* when the same name occurs elsewhere with another chain, and occurrences
\* with identical text are each replaced exactly once.
C18_EachOnItsOwn ==
    (Returned /\ variables.isObject /\ WellFormed(template.ast)
              /\ AllResolved(Outermost(template.ast))) =>
        LET nodes == Outermost(template.ast)
        IN  /\ \A i \in 1..Len(nodes) :
                  SubSeq(outcome.str,
                         nodes[i].start + Growth(nodes, i - 1) + 1,
                         nodes[i].start + Growth(nodes, i - 1)
                            + Len(OwnReplacement(nodes[i])))
                      = OwnReplacement(nodes[i])
            /\ Len(outcome.str) = Len(template.ast.text) + Growth(nodes, Len(nodes))
\* ${X|upper} && ${X|lower} with X bound to the string a" gives A" && a"
C18_Witness ==
    /\ Returned
    /\ template.ast.text = T.divergent
    /\ TemplateFilters = InitialFilters
    /\ variables.props[VarX].value = Str(<<"a", "\"">>)
    /\ outcome.str = <<"A", "\"", " ", "&", "&", " ", "a", "\"">>

\* the pieces of str between the bars that stand in no parentheses
RECURSIVE SplitTop(_, _, _)
SplitTop(str, cur, depth) ==
    IF str = <<>> THEN <<cur>>
    ELSE IF Head(str) = "|" /\ depth = 0
    THEN <<cur>> \o SplitTop(Tail(str), <<>>, 0)
    ELSE SplitTop(Tail(str), Append(cur, Head(str)),
                  IF Head(str) = "(" THEN depth + 1
                  ELSE IF Head(str) = ")" THEN depth - 1 ELSE depth)
\* a piece up to its opening parenthesis, without the spaces around it
RECURSIVE UpToParen(_)
UpToParen(str) ==
    IF str = <<>> \/ Head(str) = "(" THEN <<>>
    ELSE <<Head(str)>> \o UpToParen(Tail(str))
\* the filter names of ${ path | f1(...) | ... | fn }, read off its text
TextChain(node) ==
    LET parts == SplitTop(SubSeq(node.text, 3, Len(node.text) - 1), <<>>, 0)
    IN  [k \in 1..(Len(parts) - 1) |-> trim(UpToParen(parts[k + 1]))]

\* C19: when a name occurs several times, the filters of its entry are the
\* filter names, in document order, of its first occurrence only; later
\* occurrences add a position and leave filters as they are.
C19_FirstOccurrenceFilters ==
    Extracted =>
        LET occ == Occurrences(template.ast)
        IN  \A i \in 1..Len(outcome.list) :
                /\ outcome.list[i].filters
                      = TextChain(occ[FirstOccurrence(occ, outcome.list[i].name)])
                /\ Len(outcome.list[i].positions)
                      = Cardinality({k \in 1..Len(occ) : NameOf(occ[k]) = outcome.list[i].name})
\* ${X|upper} && ${X|lower}: one entry, filters upper, two positions
C19_Witness ==
    /\ Extracted
    /\ template.ast.text = T.divergent
    /\ Len(outcome.list) = 1
    /\ outcome.list[1].name = VarX
    /\ outcome.list[1].filters = <<FilterName.upper>>
    /\ Len(outcome.list[1].positions) = 2

C21_TypeOptional ==
    (/\ Prepared /\ variables.isObject
     /\ Len(Outermost(template.ast)) = 1
     /\ ValueWithoutType(NameOf(TheNode))
     /\ Len(ChainOf(TheNode)) >= 1
     /\ \A k \in 1..Len(ChainOf(TheNode)) : Registered(ChainOf(TheNode)[k]))
    => /\ outcome.kind = "return"
       /\ TheReplacement
             = String(AppliedNow(ChainOf(TheNode), variables.props[NameOf(TheNode)].value))

\* C22: across any sequence of parse calls, with or without a tree for the
\* text, the Parser is constructed exactly once, by the first call: the
\* cache is empty until then and holds that first instance ever after.
C22_ConstructedOnce ==
    /\ ParserCache \in {0, 1}
    /\ template.made <=> ParserCache = 1
\* a parse of f(, which gives no tree, in a state where the registry was
\* changed: the cache holds the first Parser
C22_Witness ==
    /\ outcome.op = "parse"
    /\ template.ast = NullNode
    /\ TemplateFilters # InitialFilters
    /\ ParserCache = 1

\* the names of the rules an array refers to
NamesIn(list) == [i \in 1..Len(list) |-> grammar.objects[list[i]].name]
Loaded == grammar.loaded /\ grammar # NoGrammar

\* C23: composition replaces in place or appends: for host rules with
\* pairwise distinct names, the composed list has pairwise distinct names,
\* every host rule name keeps its index, a colliding extension rule sits at
\* the index of the host rule, the other extension rules follow in
\* extension order, and the length is that of the host plus the number of
\* distinct extension names the host does not have.
C23_ReplaceOrAppend ==
    Loaded =>
        LET host == NamesIn(grammar.RuleParserRules)
            ext == NamesIn(grammar.TemplateGrammar)
            out == NamesIn(grammar.ParserRules)
            added == Distinct(SelectSeq(ext, LAMBDA n : n \notin Range(host)))
        IN  /\ \A i, j \in 1..Len(out) : i # j => out[i] # out[j]
            /\ Len(out) = Len(host) + Cardinality(Range(ext) \ Range(host))
            /\ SubSeq(out, 1, Len(host)) = host
            /\ \A i \in 1..Len(host) :
                  IF host[i] \in Range(ext)
                  THEN grammar.ParserRules[i] \in Range(grammar.TemplateGrammar)
                  ELSE grammar.ParserRules[i] = grammar.RuleParserRules[i]
            /\ SubSeq(out, Len(host) + 1, Len(out)) = added
            /\ \A i \in (Len(host) + 1)..Len(out) :
                  grammar.ParserRules[i] \in Range(grammar.TemplateGrammar)
\* the host WS, value_atom merged with the extension template_value, WS
C23_Witness ==
    /\ Loaded
    /\ NamesIn(grammar.RuleParserRules) = <<"WS", "value_atom">>
    /\ NamesIn(grammar.TemplateGrammar) = <<"template_value", "WS">>
    /\ grammar.ParserRules = <<4, 2, 3>>

\* C24: composition is pure: after it, the host rule list refers to the
\* rule objects it referred to before and every host rule object has the
\* alternatives it had before, the host value_atom rule included.
C24_HostUntouched ==
    Loaded =>
        /\ grammar.RuleParserRules = [i \in 1..Len(grammar.RuleParserRules) |-> i]
        /\ \A i \in 1..Len(grammar.RuleParserRules) :
              grammar.objects[grammar.RuleParserRules[i]].bnf = <<<<"RuleParser">>>>

\* a parsed template whose filters are all in the registry and a binding
\* map whose entries are all { value, type } with one of the ten types
FairCall ==
    /\ template.ast # NullNode
    /\ variables.isObject
    /\ \A name \in DOMAIN variables.props : WellBound(name)
    /\ LET occ == Occurrences(template.ast)
       IN  \A k \in 1..Len(occ) :
               \A f \in 1..Len(ChainOf(occ[k])) : Registered(ChainOf(occ[k])[f])

\* C25: validate and prepare agree on which templates are fully bound: for
\* a template with registered filters only and a map of well-formed
\* entries, validate returns valid = true exactly when prepare returns a
\* string, also for a placeholder nested in the filter arguments of another.
C25_ValidateAgreesWithPrepare ==
    /\ (outcome.op = "validate" /\ FairCall) =>
          /\ outcome.kind = "return"
          /\ outcome.valid <=>
                prepare(template.ast, variables, TemplateFilters).kind = "return"
    /\ (outcome.op = "prepare" /\ FairCall) =>
          (outcome.kind = "return" <=> validate(template.ast, variables).valid)

\* C26: an instance whose ast is null is handled without any error:
\* extractVariables returns an empty list, validate with an object returns
\* valid = true with no errors and prepare with an object returns the
\* empty string.
C26_NullAst ==
    (template.made /\ template.ast = NullNode) =>
        /\ outcome.op = "extractVariables" =>
              outcome.kind = "return" /\ outcome.list = <<>>
        /\ (outcome.op = "validate" /\ variables.isObject) =>
              outcome.kind = "return" /\ outcome.valid /\ outcome.list = <<>>
        /\ (outcome.op = "prepare" /\ variables.isObject) =>
              outcome.kind = "return" /\ outcome.str = <<>>
\* f( parsed, then prepared with X bound
C26_Witness ==
    /\ template.made
    /\ template.ruleTemplateText = T.unbalanced
    /\ template.ast = NullNode
    /\ outcome.op = "prepare"
    /\ hasOwnProperty(variables, VarX)
    /\ outcome.kind = "return"
    /\ outcome.str = <<>>

\* C27: the arguments written after a filter name never reach the filter:
\* every filter is called with the current value alone, so ${X|default(1)}
\* gives what ${X|default} gives, which for an empty, null or undefined
\* value is the empty string.
C27_ArgumentsIgnored ==
    (Prepared /\ variables.isObject /\ template.ast.text = T.filter_arg
              /\ WellBound(VarX)) =>
        /\ outcome.kind = "return"
        /\ outcome.str
              = prepare(getAST(ChainText(<<FilterName.default>>)), variables,
                        TemplateFilters).str
        /\ (\/ TheBinding.value = Str(<<>>)
            \/ TheBinding.value = Null
            \/ TheBinding.value = Undefined) => outcome.str = <<>>
\* ${X|default(1)} prepared with X bound to { value: null, type: 'string' }
C27_Witness ==
    /\ Returned
    /\ template.ast.text = T.filter_arg
    /\ TheBinding = Bound.NullValue
    /\ outcome.str = <<>>

\* the number of backslashes that stand right before position i of str
RECURSIVE BackslashesBefore(_, _)
BackslashesBefore(str, i) ==
    IF i <= 1 \/ str[i - 1] # "\\" THEN 0 ELSE 1 + BackslashesBefore(str, i - 1)

\* C28: the replacement for an unfiltered placeholder of type string is
\* exactly one closed string literal: it starts and ends with a double
\* quote, every double quote between the two is preceded by an odd number
\* of backslashes and the closing one by an even number, so that no bound
\* value ends the literal early.
C28_ClosedLiteral ==
    (Returned /\ template.ast.text \in BareTexts /\ TheBinding.type = "string") =>
        LET r == TheReplacement
        IN  /\ Len(r) >= 2 /\ r[1] = "\"" /\ r[Len(r)] = "\""
            /\ \A i \in 2..(Len(r) - 1) :
                  r[i] = "\"" => BackslashesBefore(r, i) % 2 = 1
            /\ BackslashesBefore(r, Len(r)) % 2 = 0
\* f(  ${X}  ) with the value \" (a backslash, then a quote): "\\\""
C28_Witness ==
    /\ Returned
    /\ template.ast.text = T.arg_ws
    /\ TheBinding.type = "string"
    /\ TheBinding.value = Str(<<"\\", "\"">>)
    /\ TheReplacement = <<"\"", "\\", "\\", "\\", "\"", "\"">>

Falsy == {Bool(FALSE), Num(0), Str(<<>>), Null, Undefined, NaN}

\* C30: for an unfiltered placeholder of type boolean the replacement is
\* one of the two literals true and false, chosen by the truthiness of the
\* value and not by its text: false for false, 0, the empty string, null
\* and undefined (and NaN), true for every other value, the strings
\* 'false' and '0' included.
C30_BooleanByTruthiness ==
    (Returned /\ template.ast.text \in BareTexts /\ TheBinding.type = "boolean") =>
        /\ TheReplacement \in {Literal_true, Literal_false}
        /\ TheBinding.value \in Falsy => TheReplacement = Literal_false
        /\ TheBinding.value \notin Falsy => TheReplacement = Literal_true
\* ${X} with the string false under type boolean gives true
C30_Witness ==
    /\ Returned
    /\ template.ast.text = T.bare
    /\ TheBinding.type = "boolean"
    /\ TheBinding.value = Str(Literal_false)
    /\ outcome.str = Literal_true
====
